---- MODULE Spec2Model ----
(***************************************************************************)
(* Model of the CSVParser accessor of src/lib.rs: construction, read       *)
(* (whole-file and streaming), count_rows, read_chunk (direct, seek and    *)
(* fallback paths) and estimate_bytes_per_row.                             *)
(*                                                                         *)
(* A file is a sequence of lines.  A line carries the number of bytes it   *)
(* occupies (terminator included), the number of fields the tokenizer      *)
(* splits it into, and whether its bytes are invalid text (the tokenizer   *)
(* then reports the record as an error).  The text of field k of line i is *)
(* the pair <<i, k>>, so two different lines never hold equal text.        *)
(***************************************************************************)
EXTENDS Integers, Sequences, FiniteSets, TLC

VARIABLES
    file,       \* the content found at self.filename
    self,       \* [batch_size, has_headers, file_size] (lib.rs:12-18)
    op,         \* the last method called on the accessor
    arg,        \* its arguments
    result      \* what it returned

vars == <<file, self, op, arg, result>>

(***************************************************************************)
(* Bounds of the model.                                                    *)
(***************************************************************************)
MaxLines == 3
MaxFields == 2
MaxBatch == 2
MaxNumRows == 2
MaxStart == 3
ManyLines == 1050
UniformLen == 2048
LongLen == 41000

(***************************************************************************)
(* Program constants.                                                      *)
(***************************************************************************)
WholeFileLimit == 100 * 1024 * 1024
SeekThreshold == 1000
sample_size == 100
DefaultBytesPerRow == 100
TokenizerCapacity == 8192

Min(a, b) == IF a < b THEN a ELSE b

(***************************************************************************)
(* A loop over lo..hi with early exit: Step is applied to lo, lo+1, ... in *)
(* order until the accumulator's done flag is set.  The range is split in  *)
(* halves only to keep the evaluation depth logarithmic.                   *)
(***************************************************************************)
RECURSIVE ForEach(_, _, _, _)
ForEach(Step(_, _), acc, lo, hi) ==
    IF lo > hi \/ acc.done THEN acc
    ELSE IF lo = hi THEN Step(acc, lo)
    ELSE LET mid == (lo + hi) \div 2
             left == ForEach(Step, acc, lo, mid)
         IN  IF left.done THEN left ELSE ForEach(Step, left, mid + 1, hi)

(***************************************************************************)
(* Bytes.                                                                  *)
(***************************************************************************)
\* Byte offset of the first byte of line i (the file's length for i = Len+1).
Offset(f, i) ==
    LET Step(acc, j) == [acc EXCEPT !.pos = @ + f[j].len]
    IN  ForEach(Step, [done |-> FALSE, pos |-> 0], 1, i - 1).pos

FileLen(f) == Offset(f, Len(f) + 1)

\* seek(pos) followed by reading single bytes up to and including the next
\* '\n': the index of the line whose first byte the handle then stands on
\* (Len(f) + 1 when the bytes run out first).
SkipToLineBoundary(f, pos) ==
    LET Step(acc, j) ==
            LET end == acc.pos + f[j].len
            IN  [done |-> end > pos, pos |-> end, line |-> j + 1]
    IN  ForEach(Step, [done |-> FALSE, pos |-> 0, line |-> 1], 1, Len(f)).line

(***************************************************************************)
(* The tokenizer (csv::Reader) as the program configures it.  A reader is  *)
(* [flexible, has_headers, first]: first is the line its byte source       *)
(* starts at.  A reader that is not flexible expects every record to have  *)
(* as many fields as the first record it read.                             *)
(***************************************************************************)
Record(f, i) == [k \in 1..f[i].nf |-> <<i, k>>]

\* reader.headers(): the first record of the source, whatever has_headers.
headers(f, rd) ==
    IF rd.first > Len(f) THEN [kind |-> "Ok", record |-> <<>>]
    ELSE IF f[rd.first].bad THEN [kind |-> "Err", record |-> <<>>]
    ELSE [kind |-> "Ok", record |-> Record(f, rd.first)]

\* The line the first item of reader.records() comes from.
FirstRecordLine(rd) == IF rd.has_headers THEN rd.first + 1 ELSE rd.first

\* One item of reader.records(), read from the given line.
NextRecord(f, rd, line) ==
    IF line > Len(f) THEN [kind |-> "None", record |-> <<>>]
    ELSE IF ~rd.flexible /\ f[line].nf # f[rd.first].nf
         THEN [kind |-> "Err", record |-> <<>>]
    ELSE IF f[line].bad THEN [kind |-> "Err", record |-> <<>>]
    ELSE [kind |-> "Ok", record |-> Record(f, line)]

(***************************************************************************)
(* Rows.  A row is the dict built from one record, in insertion order.     *)
(***************************************************************************)
set_item(row, key, val) ==
    IF \E j \in 1..Len(row) : row[j].key = key
    THEN [j \in 1..Len(row) |->
              IF row[j].key = key THEN [key |-> key, val |-> val] ELSE row[j]]
    ELSE Append(row, [key |-> key, val |-> val])

\* The key headers.get(i).unwrap_or("None") falls back to.
NoneKey == <<0, 0>>

MakeRowUnguarded(hdr, record) ==
    LET Step(acc, i) ==
            [acc EXCEPT !.row = set_item(@,
                 IF i <= Len(hdr) THEN hdr[i] ELSE NoneKey, record[i])]
    IN  ForEach(Step, [done |-> FALSE, row |-> <<>>], 1, Len(record)).row

MakeRow(hdr, record) ==
    LET Step(acc, i) ==
            IF i <= Len(hdr)
            THEN [acc EXCEPT !.row = set_item(@, hdr[i], record[i])]
            ELSE acc
    IN  ForEach(Step, [done |-> FALSE, row |-> <<>>], 1, Len(record)).row

(***************************************************************************)
(* read: the streaming body and read_optimized.                            *)
(***************************************************************************)
ReadInit == [done |-> FALSE, err |-> FALSE, batches |-> <<>>,
             current_rows |-> <<>>, count |-> 0]

ReadErr(strategy) ==
    [status |-> "FormatError", batches |-> <<>>, strategy |-> strategy]

ReadOk(st, strategy) ==
    [status |-> "Ok", strategy |-> strategy,
     batches |-> IF st.count > 0 THEN Append(st.batches, st.current_rows)
                 ELSE st.batches]

read_optimized_step_late_flush(p, f, rd, hdr, acc, line) ==
    LET r == NextRecord(f, rd, line)
    IN  IF r.kind = "Err" THEN [acc EXCEPT !.done = TRUE, !.err = TRUE]
        ELSE LET rows == Append(acc.current_rows, MakeRow(hdr, r.record))
                 count == acc.count + 1
             IN  IF count > p.batch_size
                 THEN [acc EXCEPT !.batches = Append(@, rows),
                                  !.current_rows = <<>>, !.count = 0]
                 ELSE [acc EXCEPT !.current_rows = rows, !.count = count]

\* One iteration of the record loop of read_optimized.
read_optimized_step(p, f, rd, hdr, acc, line) ==
    LET r == NextRecord(f, rd, line)
    IN  IF r.kind = "Err" THEN [acc EXCEPT !.done = TRUE, !.err = TRUE]
        ELSE LET rows == Append(acc.current_rows, MakeRow(hdr, r.record))
                 count == acc.count + 1
             IN  IF count >= p.batch_size
                 THEN [acc EXCEPT !.batches = Append(@, rows),
                                  !.current_rows = <<>>, !.count = 0]
                 ELSE [acc EXCEPT !.current_rows = rows, !.count = count]

read_optimized(p, f) ==
    LET rd == [flexible |-> TRUE, has_headers |-> p.has_headers, first |-> 1]
        h == headers(f, rd)
        Step(acc, line) == read_optimized_step(p, f, rd, h.record, acc, line)
        st == ForEach(Step, ReadInit, FirstRecordLine(rd), Len(f))
    IN  IF h.kind = "Err" THEN ReadErr("WholeFile")
        ELSE IF st.err THEN ReadErr("WholeFile")
        ELSE ReadOk(st, "WholeFile")

read_step_skip_bad(p, f, rd, hdr, acc, line) ==
    LET r == NextRecord(f, rd, line)
    IN  IF r.kind = "Err" THEN acc
        ELSE LET rows == Append(acc.current_rows, MakeRow(hdr, r.record))
                 count == acc.count + 1
             IN  IF count >= p.batch_size
                 THEN [acc EXCEPT !.batches = Append(@, rows),
                                  !.current_rows = <<>>, !.count = 0]
                 ELSE [acc EXCEPT !.current_rows = rows, !.count = count]

\* One iteration of the record loop of the streaming body of read.
read_step(p, f, rd, hdr, acc, line) ==
    LET r == NextRecord(f, rd, line)
    IN  IF r.kind = "Err" THEN [acc EXCEPT !.done = TRUE, !.err = TRUE]
        ELSE LET rows == Append(acc.current_rows, MakeRow(hdr, r.record))
                 count == acc.count + 1
             IN  IF count >= p.batch_size
                 THEN [acc EXCEPT !.batches = Append(@, rows),
                                  !.current_rows = <<>>, !.count = 0]
                 ELSE [acc EXCEPT !.current_rows = rows, !.count = count]

read_streaming_drop_remainder(p, f) ==
    LET rd == [flexible |-> TRUE, has_headers |-> p.has_headers, first |-> 1]
        h == headers(f, rd)
        Step(acc, line) == read_step(p, f, rd, h.record, acc, line)
        st == ForEach(Step, ReadInit, FirstRecordLine(rd), Len(f))
    IN  IF h.kind = "Err" THEN ReadErr("Streaming")
        ELSE IF st.err THEN ReadErr("Streaming")
        ELSE [status |-> "Ok", strategy |-> "Streaming", batches |-> st.batches]

read_streaming(p, f) ==
    LET rd == [flexible |-> TRUE, has_headers |-> p.has_headers, first |-> 1]
        h == headers(f, rd)
        Step(acc, line) == read_step(p, f, rd, h.record, acc, line)
        st == ForEach(Step, ReadInit, FirstRecordLine(rd), Len(f))
    IN  IF h.kind = "Err" THEN ReadErr("Streaming")
        ELSE IF st.err THEN ReadErr("Streaming")
        ELSE ReadOk(st, "Streaming")

read_inclusive_limit(p, f) ==
    IF p.file_size > 0 /\ p.file_size <= WholeFileLimit
    THEN read_optimized(p, f)
    ELSE read_streaming(p, f)

read(p, f) ==
    IF p.file_size > 0 /\ p.file_size < WholeFileLimit
    THEN read_optimized(p, f)
    ELSE read_streaming(p, f)

(***************************************************************************)
(* count_rows.                                                             *)
(***************************************************************************)
count_rows_step_abort(f, rd, acc, line) ==
    IF NextRecord(f, rd, line).kind = "Ok"
    THEN [acc EXCEPT !.count = @ + 1]
    ELSE [acc EXCEPT !.done = TRUE]

count_rows_step(f, rd, acc, line) ==
    IF NextRecord(f, rd, line).kind = "Ok"
    THEN [acc EXCEPT !.count = @ + 1]
    ELSE acc

count_rows(p, f) ==
    LET rd == [flexible |-> FALSE, has_headers |-> p.has_headers, first |-> 1]
        Step(acc, line) == count_rows_step(f, rd, acc, line)
        st == ForEach(Step, [done |-> FALSE, count |-> 0],
                      FirstRecordLine(rd), Len(f))
    IN  IF p.has_headers /\ headers(f, rd).kind = "Err"
        THEN [status |-> "FormatError", count |-> 0]
        ELSE [status |-> "Ok", count |-> st.count]

(***************************************************************************)
(* estimate_bytes_per_row.  The estimate is the rational num / den.        *)
(***************************************************************************)
\* reader.stream_position() of the BufReader the tokenizer reads through:
\* the tokenizer pulls bytes in blocks of its own buffer capacity, so the
\* handle stands at the end of the last block pulled (at the end of the
\* file once the tokenizer has run into it), not at the end of the last record.
StreamPosition(f, parsedEnd, hitEof) ==
    IF hitEof THEN FileLen(f)
    ELSE Min(FileLen(f),
             TokenizerCapacity
               * ((parsedEnd + TokenizerCapacity - 1) \div TokenizerCapacity))

estimate_bytes_per_row(p, f) ==
    LET rd == [flexible |-> FALSE, has_headers |-> p.has_headers, first |-> 1]
        start_pos == 0
        Step(acc, k) ==
            LET r == NextRecord(f, rd, acc.line)
            IN  IF r.kind = "Ok"
                THEN [acc EXCEPT !.row_count = @ + 1, !.line = @ + 1]
                ELSE IF r.kind = "Err"
                THEN [acc EXCEPT !.done = TRUE, !.err = TRUE]
                ELSE [acc EXCEPT !.done = TRUE, !.eof = TRUE]
        st == ForEach(Step, [done |-> FALSE, err |-> FALSE, eof |-> FALSE,
                             row_count |-> 0, line |-> FirstRecordLine(rd)],
                      1, sample_size)
        end_pos == StreamPosition(f, Offset(f, st.line), st.eof)
    IN  IF p.has_headers /\ headers(f, rd).kind = "Err"
        THEN [status |-> "FormatError", num |-> 0, den |-> 1]
        ELSE IF st.err THEN [status |-> "FormatError", num |-> 0, den |-> 1]
        ELSE IF st.row_count > 0
        THEN [status |-> "Ok", num |-> end_pos - start_pos,
              den |-> st.row_count]
        ELSE [status |-> "Ok", num |-> DefaultBytesPerRow, den |-> 1]

(***************************************************************************)
(* read_chunk.                                                             *)
(***************************************************************************)
\* floor(num * m / den), computed without leaving the 32-bit integers.  The
\* code computes in f64; the estimate is kept as the exact rational here.
MulDivFloor(num, m, den) ==
    (num \div den) * m + ((num % den) * m) \div den

\* (num / den) * m < size, for an integer size.
ProductBelow(num, m, den, size) ==
    /\ m = 0 \/ (num \div den) <= size \div m
    /\ MulDivFloor(num, m, den) < size

ChunkErr(path) ==
    [status |-> "FormatError", rows |-> <<>>, path |-> path,
     from |-> 0, eof |-> FALSE]

TakeRecordsOneMore(f, rd, hdr, from, num_rows) ==
    LET Step(acc, k) ==
            LET r == NextRecord(f, rd, acc.line)
            IN  IF r.kind = "Ok"
                THEN [acc EXCEPT !.rows = Append(@, MakeRow(hdr, r.record)),
                                 !.line = @ + 1]
                ELSE IF r.kind = "Err"
                THEN [acc EXCEPT !.done = TRUE, !.err = TRUE]
                ELSE [acc EXCEPT !.done = TRUE, !.eof = TRUE]
    IN  ForEach(Step, [done |-> FALSE, err |-> FALSE, eof |-> FALSE,
                       rows |-> <<>>, line |-> from], 1, num_rows + 1)

\* The loop that takes up to num_rows records from the line `from` on and
\* turns each into a row (lib.rs:320-341, 477-502 and 547-569).
TakeRecords(f, rd, hdr, from, num_rows) ==
    LET Step(acc, k) ==
            LET r == NextRecord(f, rd, acc.line)
            IN  IF r.kind = "Ok"
                THEN [acc EXCEPT !.rows = Append(@, MakeRow(hdr, r.record)),
                                 !.line = @ + 1]
                ELSE IF r.kind = "Err"
                THEN [acc EXCEPT !.done = TRUE, !.err = TRUE]
                ELSE [acc EXCEPT !.done = TRUE, !.eof = TRUE]
    IN  ForEach(Step, [done |-> FALSE, err |-> FALSE, eof |-> FALSE,
                       rows |-> <<>>, line |-> from], 1, num_rows)

ChunkResult(st, path, from) ==
    IF st.err THEN ChunkErr(path)
    ELSE [status |-> "Ok", rows |-> st.rows, path |-> path,
          from |-> from, eof |-> st.eof]

\* The direct path of read_chunk (start_row = 0 with headers).
direct(p, f, num_rows) ==
    LET rd == [flexible |-> FALSE, has_headers |-> p.has_headers, first |-> 1]
        h == headers(f, rd)
        from == FirstRecordLine(rd)
    IN  IF h.kind = "Err" THEN ChunkErr("direct")
        ELSE ChunkResult(TakeRecords(f, rd, h.record, from, num_rows),
                         "direct", from)

fallback_skip_one_more(p, f, start_row, num_rows) ==
    LET rd == [flexible |-> FALSE, has_headers |-> p.has_headers, first |-> 1]
        h == headers(f, rd)
        first == FirstRecordLine(rd)
        from == first + start_row + 1
    IN  IF h.kind = "Err" THEN ChunkErr("fallback")
        ELSE IF from > Len(f) + 1
        THEN [status |-> "Ok", rows |-> <<>>, path |-> "fallback",
              from |-> Len(f) + 1, eof |-> TRUE]
        ELSE ChunkResult(TakeRecords(f, rd, h.record, from, num_rows),
                         "fallback", from)

\* The fallback of read_chunk_optimized: discard start_row items of
\* records(), errors included, then take up to num_rows records.
fallback(p, f, start_row, num_rows) ==
    LET rd == [flexible |-> FALSE, has_headers |-> p.has_headers, first |-> 1]
        h == headers(f, rd)
        first == FirstRecordLine(rd)
        from == first + start_row
    IN  IF h.kind = "Err" THEN ChunkErr("fallback")
        ELSE IF from > Len(f) + 1
        THEN [status |-> "Ok", rows |-> <<>>, path |-> "fallback",
              from |-> Len(f) + 1, eof |-> TRUE]
        ELSE ChunkResult(TakeRecords(f, rd, h.record, from, num_rows),
                         "fallback", from)

\* The multiplier of estimated_bytes_per_row in estimated_pos.
PosFactor(p, start_row) == start_row + (IF p.has_headers THEN 1 ELSE 0)

\* estimated_pos < self.file_size
SeekTaken(p, est, start_row) ==
    ProductBelow(est.num, PosFactor(p, start_row), est.den, p.file_size)

\* safe_pos = (estimated_pos - 2 * estimated_bytes_per_row).max(0.0) as u64
safe_pos(p, est, start_row) ==
    IF PosFactor(p, start_row) <= 2 THEN 0
    ELSE MulDivFloor(est.num, PosFactor(p, start_row) - 2, est.den)

\* The seek path of read_chunk_optimized, entered once SeekTaken holds.
seek_path(p, f, est, start_row, num_rows) ==
    LET from == SkipToLineBoundary(f, safe_pos(p, est, start_row))
        csv_reader == [flexible |-> FALSE, has_headers |-> FALSE,
                       first |-> from]
        header_reader == [flexible |-> FALSE, has_headers |-> TRUE,
                          first |-> 1]
        h == headers(f, header_reader)
    IN  IF h.kind = "Err" THEN ChunkErr("seek")
        ELSE ChunkResult(TakeRecords(f, csv_reader, h.record, from, num_rows),
                         "seek", from)

read_chunk_optimized_from_threshold(p, f, start_row, num_rows) ==
    IF start_row >= SeekThreshold /\ p.file_size > 0
    THEN LET est == estimate_bytes_per_row(p, f)
         IN  IF est.status # "Ok" THEN ChunkErr("estimate")
             ELSE IF est.num > 0 /\ SeekTaken(p, est, start_row)
             THEN seek_path(p, f, est, start_row, num_rows)
             ELSE fallback(p, f, start_row, num_rows)
    ELSE fallback(p, f, start_row, num_rows)

read_chunk_optimized(p, f, start_row, num_rows) ==
    IF start_row > SeekThreshold /\ p.file_size > 0
    THEN LET est == estimate_bytes_per_row(p, f)
         IN  IF est.status # "Ok" THEN ChunkErr("estimate")
             ELSE IF est.num > 0 /\ SeekTaken(p, est, start_row)
             THEN seek_path(p, f, est, start_row, num_rows)
             ELSE fallback(p, f, start_row, num_rows)
    ELSE fallback(p, f, start_row, num_rows)

read_chunk(p, f, start_row, num_rows) ==
    IF start_row = 0 /\ p.has_headers
    THEN direct(p, f, num_rows)
    ELSE read_chunk_optimized(p, f, start_row, num_rows)

(***************************************************************************)
(* The files and arguments explored.                                       *)
(***************************************************************************)
SmallLines ==
    {[nf |-> n, len |-> 2 * n, bad |-> b] : n \in 1..MaxFields, b \in BOOLEAN}

SmallFiles == UNION {[1..k -> SmallLines] : k \in 0..MaxLines}

\* ManyLines lines of one size.
UniformFile == [i \in 1..ManyLines |-> [nf |-> 2, len |-> UniformLen, bad |-> FALSE]]

\* As many short lines as the estimator samples, after a header, followed
\* by three long lines.
SkewedFile ==
    [i \in 1..(sample_size + 4) |->
        [nf |-> 2, len |-> IF i <= sample_size + 1 THEN 4 ELSE LongLen,
         bad |-> FALSE]]

\* A two-line file of the given byte length.
FileOfSize(size) ==
    <<[nf |-> 1, len |-> 2, bad |-> FALSE],
      [nf |-> 1, len |-> size - 2, bad |-> FALSE]>>

LargeFiles ==
    {UniformFile, SkewedFile} \cup
    {FileOfSize(WholeFileLimit + d) : d \in {-1, 0, 1}}

Files == SmallFiles \cup LargeFiles

StartRows ==
    (0..MaxStart) \cup {SeekThreshold, SeekThreshold + 1, ManyLines - 1, ManyLines}

(***************************************************************************)
(* The state machine.                                                      *)
(***************************************************************************)
\* CSVParser::new: the byte length is captured once; it is 0 when the
\* metadata cannot be read.
Init ==
    /\ file \in Files
    /\ \E bs \in 1..MaxBatch, hh \in BOOLEAN, metadata_ok \in BOOLEAN :
          self = [batch_size |-> bs, has_headers |-> hh,
                  file_size |-> IF metadata_ok THEN FileLen(file) ELSE 0]
    /\ op = "new"
    /\ arg = <<>>
    /\ result = [status |-> "Ok"]

Call_read ==
    /\ op' = "read"
    /\ arg' = <<>>
    /\ result' = read(self, file)
    /\ UNCHANGED <<file, self>>

Call_count_rows ==
    /\ op' = "count_rows"
    /\ arg' = <<>>
    /\ result' = count_rows(self, file)
    /\ UNCHANGED <<file, self>>

Call_read_chunk ==
    \E start_row \in StartRows, num_rows \in 0..MaxNumRows :
        /\ op' = "read_chunk"
        /\ arg' = <<start_row, num_rows>>
        /\ result' = read_chunk(self, file, start_row, num_rows)
        /\ UNCHANGED <<file, self>>

Next == Call_read \/ Call_count_rows \/ Call_read_chunk

Spec == Init /\ [][Next]_vars

(***************************************************************************)
(* Vocabulary of the properties.                                           *)
(***************************************************************************)
HeaderLines(p) == IF p.has_headers THEN 1 ELSE 0

\* The lines that hold data rows.
DataLines(p, f) == (HeaderLines(p) + 1)..Len(f)

TotalRows(p, f) == IF Len(f) > HeaderLines(p) THEN Len(f) - HeaderLines(p) ELSE 0

\* No line is invalid text: the flexible tokenizer of read reports no error.
NoInvalidLine(f) == \A i \in 1..Len(f) : ~f[i].bad

\* No tokenizer the program configures reports an error on the file: no line
\* is invalid text and every line has as many fields as the first.
WellFormed(f) == \A i \in 1..Len(f) : ~f[i].bad /\ f[i].nf = f[1].nf

\* All lines of the file occupy the same number of bytes.
UniformRows(f) == \A i \in 1..Len(f) : f[i].len = f[1].len

\* The row of line `line`: field j under header j, as far as both exist.
RowOfLine(f, line) ==
    [j \in 1..Min(f[line].nf, f[1].nf) |->
        [key |-> <<1, j>>, val |-> <<line, j>>]]

\* The rows of all data lines, in file order.
RowsInFileOrder(p, f) ==
    [i \in 1..TotalRows(p, f) |-> RowOfLine(f, HeaderLines(p) + i)]

Flatten(batches) ==
    LET Step(acc, i) == [acc EXCEPT !.rows = @ \o batches[i]]
    IN  ForEach(Step, [done |-> FALSE, rows |-> <<>>], 1, Len(batches)).rows

Slice(s, first, last) ==
    [i \in 1..(IF last >= first THEN last - first + 1 ELSE 0) |-> s[first + i - 1]]

(***************************************************************************)
(* C1.  On a file of uniformly sized, well-formed rows, a read_chunk with  *)
(* start_row > 1000 inside the file that went through the seek path        *)
(* returns what the fallback linear skip returns for the same arguments.   *)
(***************************************************************************)
C1_SeekEqualsFallback ==
    (/\ op = "read_chunk"
     /\ result.path = "seek"
     /\ UniformRows(file) /\ WellFormed(file)
     /\ arg[1] > SeekThreshold
     /\ arg[1] < TotalRows(self, file))
    => LET fb == fallback(self, file, arg[1], arg[2])
       IN  result.status = fb.status /\ result.rows = fb.rows

(***************************************************************************)
(* C2.  On a file without invalid lines, read succeeds; the concatenation  *)
(* of its batches is the rows of the data lines in file order; every batch *)
(* but the last has exactly batch_size rows; no batch is empty.            *)
(***************************************************************************)
C2_ReadBatches ==
    (op = "read" /\ NoInvalidLine(file))
    => /\ result.status = "Ok"
       /\ Flatten(result.batches) = RowsInFileOrder(self, file)
       /\ \A b \in 1..Len(result.batches) :
             /\ Len(result.batches[b]) >= 1
             /\ b < Len(result.batches)
                  => Len(result.batches[b]) = self.batch_size

C2_Witness ==
    /\ op = "read" /\ NoInvalidLine(file) /\ result.status = "Ok"
    /\ self.batch_size = 2
    /\ Len(result.batches) = 2
    /\ Len(result.batches[1]) = 2
    /\ Len(result.batches[2]) = 1

C4_PastEndIsEmpty ==
    (/\ op = "read_chunk"
     /\ WellFormed(file)
     /\ arg[1] >= TotalRows(self, file))
    => result.status = "Ok" /\ result.rows = <<>>

(***************************************************************************)
(* C5.  If any line of the file is invalid, read fails with a format error *)
(* and returns no batch, in the whole-file strategy and in the streaming   *)
(* strategy alike, also when batches were completed before that line.      *)
(***************************************************************************)
C5_ReadAllOrNothing ==
    (\E i \in 1..Len(file) : file[i].bad)
    => /\ \A r \in {read_optimized(self, file), read_streaming(self, file)} :
             r.status = "FormatError" /\ r.batches = <<>>
       /\ op = "read"
             => result.status = "FormatError" /\ result.batches = <<>>

C5_Witness ==
    /\ op = "read"
    /\ self.batch_size = 1 /\ self.has_headers
    /\ Len(file) = 3
    /\ ~file[1].bad /\ ~file[2].bad /\ file[3].bad
    /\ result.status = "FormatError"

(***************************************************************************)
(* C6.  count_rows returns the number of data lines its tokenizer yields   *)
(* without error (the header line is not counted when has_headers is set); *)
(* a malformed record never aborts the count; count_rows fails exactly     *)
(* when has_headers is set and the header line cannot be read.             *)
(***************************************************************************)
CountReader(p) == [flexible |-> FALSE, has_headers |-> p.has_headers, first |-> 1]

C6_CountRows ==
    op = "count_rows"
    => IF self.has_headers /\ Len(file) >= 1 /\ file[1].bad
       THEN result.status = "FormatError"
       ELSE /\ result.status = "Ok"
            /\ result.count =
                 Cardinality({i \in DataLines(self, file) :
                     NextRecord(file, CountReader(self), i).kind = "Ok"})

C6_Witness ==
    /\ op = "count_rows" /\ result.status = "Ok"
    /\ Len(file) = 3
    /\ ~file[1].bad /\ file[2].bad /\ ~file[3].bad /\ file[3].nf = file[1].nf
    /\ result.count = IF self.has_headers THEN 1 ELSE 2

(***************************************************************************)
(* C7.  Whenever a record read_chunk consumes through the tokenizer (the   *)
(* ones it discards to reach start_row and the ones it takes) is reported  *)
(* as malformed, read_chunk fails with a format error.                     *)
(***************************************************************************)
ChunkReader(p) == [flexible |-> FALSE, has_headers |-> p.has_headers, first |-> 1]

\* The lines whose records a linear read_chunk pulls from the tokenizer.
ConsumedLines(p, f, start_row, num_rows) ==
    (HeaderLines(p) + 1)..Min(Len(f), HeaderLines(p) + start_row + num_rows)

C7_ChunkAllOrNothing ==
    (/\ op = "read_chunk"
     /\ result.path \in {"direct", "fallback"}
     /\ \E i \in ConsumedLines(self, file, arg[1], arg[2]) :
           NextRecord(file, ChunkReader(self), i).kind = "Err")
    => result.status = "FormatError"

(***************************************************************************)
(* C8.  read takes the whole-file strategy exactly when the byte length    *)
(* captured at construction is above 0 and below 104857600, and the        *)
(* streaming strategy otherwise.                                           *)
(***************************************************************************)
C8_StrategyChoice ==
    op = "read"
    => /\ result.strategy \in {"WholeFile", "Streaming"}
       /\ result.strategy = "WholeFile"
             <=> (self.file_size > 0 /\ self.file_size < 104857600)

C8_Witness ==
    /\ op = "read"
    /\ self.file_size = 104857600
    /\ result.strategy = "Streaming"

(***************************************************************************)
(* C9.  Every row read and read_chunk return holds, for some line of the   *)
(* file, field j of that line under header j for exactly the positions j   *)
(* that exist in both the line and the header (so never more entries than  *)
(* headers, fields past the header count dropped, no entry for a header    *)
(* position a short record lacks).                                         *)
(***************************************************************************)
RowWellShaped(f, row) ==
    /\ Len(row) >= 1
    /\ Len(row) <= f[1].nf
    /\ LET line == row[1].val[1]
       IN  line \in 1..Len(f) /\ row = RowOfLine(f, line)

C9_RowShape ==
    /\ (op = "read" /\ result.status = "Ok")
          => \A b \in 1..Len(result.batches) :
                \A i \in 1..Len(result.batches[b]) :
                   RowWellShaped(file, result.batches[b][i])
    /\ (op = "read_chunk" /\ result.status = "Ok")
          => \A i \in 1..Len(result.rows) : RowWellShaped(file, result.rows[i])

C9_Witness ==
    /\ op = "read" /\ result.status = "Ok"
    /\ Len(file) = 3
    /\ file[1].nf = 2 /\ file[2].nf = 1 /\ file[3].nf = 2
    /\ \E b \in 1..Len(result.batches) :
          \E i \in 1..Len(result.batches[b]) : Len(result.batches[b][i]) = 1

(***************************************************************************)
(* C10.  A successful read_chunk returns at most num_rows rows, and fewer  *)
(* than num_rows only when the records ran out: the tokenizer reported the *)
(* end of the file and the rows taken reach past its last line.            *)
(***************************************************************************)
C10_AtMostNumRows ==
    (op = "read_chunk" /\ result.status = "Ok")
    => /\ Len(result.rows) <= arg[2]
       /\ Len(result.rows) < arg[2]
             => /\ result.eof
                /\ result.from + Len(result.rows) > Len(file)

C10_Witness ==
    /\ op = "read_chunk" /\ result.status = "Ok"
    /\ result.path = "seek"
    /\ arg[2] = 2
    /\ Len(result.rows) = 1

(***************************************************************************)
(* C11.  read_chunk answers through the seek path exactly when start_row > *)
(* 1000, the cached byte length is not 0, the estimate is positive and     *)
(* estimated_pos is below the cached byte length; in every other case in   *)
(* which the call gets past the estimator, the answer comes from a linear  *)
(* scan from the start of the file (the direct path or the fallback).      *)
(***************************************************************************)
SeekConditions ==
    /\ arg[1] > 1000
    /\ self.file_size # 0
    /\ LET est == estimate_bytes_per_row(self, file)
       IN  /\ est.status = "Ok"
           /\ est.num > 0
           /\ ProductBelow(est.num, PosFactor(self, arg[1]), est.den,
                           self.file_size)

EstimatorFails ==
    /\ arg[1] > 1000
    /\ self.file_size # 0
    /\ estimate_bytes_per_row(self, file).status # "Ok"

C11_SeekOnlyWhenProjected ==
    op = "read_chunk"
    => /\ result.path = "seek" <=> SeekConditions
       /\ (~SeekConditions /\ ~EstimatorFails)
             => result.path \in {"direct", "fallback"}

\* estimated_pos equals the cached byte length: at, not below.
C11_Witness ==
    /\ op = "read_chunk"
    /\ arg[1] > 1000 /\ self.file_size # 0
    /\ UniformRows(file) /\ Len(file) = arg[1]
    /\ LET est == estimate_bytes_per_row(self, file)
       IN  /\ est.status = "Ok" /\ est.num > 0
           /\ est.num * PosFactor(self, arg[1]) = self.file_size * est.den
    /\ result.path = "fallback"

(***************************************************************************)
(* C12.  On a file of uniformly sized, well-formed rows, the seek path     *)
(* starts taking records at the first byte of a row whose index is at most *)
(* start_row: the target row is never skipped.                             *)
(***************************************************************************)
\* The line that holds data row start_row (0-based).
LineOfRow(p, start_row) == HeaderLines(p) + start_row + 1

C12_TargetNotSkipped ==
    (/\ op = "read_chunk"
     /\ result.status = "Ok"
     /\ result.path = "seek"
     /\ UniformRows(file) /\ WellFormed(file))
    => result.from <= LineOfRow(self, arg[1])

(***************************************************************************)
(* C13.  For the same file, header flag and batch_size, read_optimized and *)
(* the streaming body of read return the same thing: the same batches with *)
(* the same rows, or the same kind of error.                               *)
(***************************************************************************)
C13_StrategiesAgree ==
    LET w == read_optimized(self, file)
        s == read_streaming(self, file)
    IN  /\ w.status = s.status
        /\ w.batches = s.batches
        /\ op = "read" => result.status = s.status /\ result.batches = s.batches

C13_Witness ==
    /\ op = "read"
    /\ result.strategy = "WholeFile"
    /\ result.status = "Ok"
    /\ Len(result.batches) = 2
    /\ Len(result.batches[2]) < self.batch_size
    /\ read_streaming(self, file).batches = result.batches

(***************************************************************************)
(* C14.  On every file on which read succeeds, records with differing      *)
(* numbers of fields included, count_rows returns the total number of rows *)
(* over all batches read returns.                                          *)
(***************************************************************************)
C14_CountMatchesRead ==
    (op = "count_rows" /\ read(self, file).status = "Ok")
    => /\ result.status = "Ok"
       /\ result.count = Len(Flatten(read(self, file).batches))

====
